---- MODULE Spec2Model ----
(***************************************************************************)
(* PMREMGenerator (src/src/three-components/NewPMREMGenerator.ts): the LOD *)
(* planner built by the constructor and the convolution engine run by      *)
(* equirectangularToPMREM.                                                  *)
(*                                                                         *)
(* Real numbers are fixed-point integers with Scale units to 1.0 (TLC has  *)
(* 32-bit integers and reports an overflow as an error, so every product   *)
(* is split).  Sizes, LOD indices, texel coordinates and sample counts are *)
(* plain integers, as they are integer-valued in the code.                 *)
(***************************************************************************)
EXTENDS Integers, Sequences, FiniteSets

\* ------------------------------------------------------------ constants
LOD_MIN == 3
LOD_MAX == 8
MAX_SAMPLES == 20
standardDeviations == 3

RECURSIVE Pow2(_)
Pow2(k) == IF k = 0 THEN 1 ELSE 2 * Pow2(k - 1)

SIZE_MAX == Pow2(LOD_MAX)

\* ------------------------------------------------- fixed-point numbers
Half == 10 * 10 * 10
Scale == Half * Half

\* The values a JavaScript division by zero produces.
NaN == 0 - 1
Infinity == 0 - 2
IsFinite(a) == a >= 0

\* a * b / Scale, rounded down, for 0 <= a, b.
MulS(a, b) ==
    LET ah == a \div Half
        al == a % Half
        bh == b \div Half
        bl == b % Half
    IN  ah * bh + ((ah * bl + al * bh) + ((al * bl) \div Half)) \div Half

RECURSIVE LongDiv(_, _, _, _)
LongDiv(r, b, digits, acc) ==
    IF digits = 0 THEN acc
    ELSE LongDiv((r * 10) % b, b, digits - 1, acc * 10 + ((r * 10) \div b))

\* a * Scale / b, rounded down, for 0 <= a, 0 < b < 2^31 / 10.
DivS(a, b) == LongDiv(a % b, b, 6, a \div b)

RECURSIVE SqrtBisect(_, _, _)
SqrtBisect(lo, hi, a) ==
    IF hi - lo <= 1 THEN lo
    ELSE LET mid == (lo + hi) \div 2
         IN  IF MulS(mid, mid) <= a THEN SqrtBisect(mid, hi, a)
             ELSE SqrtBisect(lo, mid, a)

\* Math.sqrt: the largest r with r * r <= a.
Sqrt(a) == SqrtBisect(0, a + Scale, a)

PI == 3141593

RECURSIVE ExpSeries(_, _, _, _, _)
ExpSeries(f, k, term, acc, terms) ==
    IF k > terms THEN acc
    ELSE LET t == MulS(term, f) \div k
         IN  ExpSeries(f, k + 1, t,
                       IF k % 2 = 1 THEN acc - t ELSE acc + t, terms)

\* exp(-f) for 0 <= f <= 1, by its alternating series.
ExpNegFrac(f) == ExpSeries(f, 1, Scale, Scale, 12)

RECURSIVE PowS(_, _)
PowS(b, m) == IF m = 0 THEN Scale ELSE MulS(b, PowS(b, m - 1))

\* Math.exp(-y) for y >= 0: exp(-1)^floor(y) * exp(-frac(y)); below one
\* unit of the fixed-point scale from y = 14 on.
ExpNeg(y) ==
    IF y >= 14 * Scale THEN 0
    ELSE MulS(PowS(ExpNegFrac(Scale), y \div Scale), ExpNegFrac(y % Scale))

\* Math.ceil(a / b) for a >= 0, b > 0.
CeilDiv(a, b) == (a + b - 1) \div b

Max(a, b) == IF a >= b THEN a ELSE b
Min(a, b) == IF a <= b THEN a ELSE b


\* ------------------------------------------------------------ planner
\* EXTRA_LOD_ROUGHNESS = [0.5, 0.7, 1.0]
EXTRA_LOD_ROUGHNESS == <<Scale \div 2, (7 * Scale) \div 10, Scale>>

TOTAL_LODS == LOD_MAX - LOD_MIN + 1 + Len(EXTRA_LOD_ROUGHNESS)

\* Lod is the sequence index of LOD i: the code's arrays start at 0.
Lod(i) == i + 1

\* Math.pow(2, lod)
SizeOfLod(lod) == Pow2(lod)

\* if (lod > LOD_MIN) lod--
NextLodMutant(lod) == lod - 1
NextLod(lod) == IF lod > LOD_MIN THEN lod - 1 ELSE lod

\* sigma = Math.PI * roughness * roughness / (1 + roughness)
ExtraSigmaMutant(roughness) ==
    DivS(DivS(MulS(roughness, roughness), PI), Scale + roughness)
ExtraSigma(roughness) ==
    DivS(MulS(MulS(PI, roughness), roughness), Scale + roughness)

\* sigma of LOD i: 1.0 / sizeLod, overridden for the extra levels.
SigmaOfLod(i, sizeLod) ==
    IF i > LOD_MAX - LOD_MIN
    THEN ExtraSigma(EXTRA_LOD_ROUGHNESS[Lod(i - LOD_MAX + LOD_MIN - 1)])
    ELSE Scale \div sizeLod

\* roughness = (1 + Math.sqrt(1 + 4 * Math.PI * sizeLod)) /
\*             (2 * Math.PI * sizeLod), overridden for the extra levels.
\* With t = 1 / (2 * Math.PI * sizeLod) this is t + sqrt(t * t + 2 * t),
\* the form whose terms fit 32-bit integers.
RoughnessOfLod(i, sizeLod) ==
    IF i > LOD_MAX - LOD_MIN
    THEN EXTRA_LOD_ROUGHNESS[Lod(i - LOD_MAX + LOD_MIN - 1)]
    ELSE LET t == DivS(Scale \div (2 * sizeLod), PI)
         IN  t + Sqrt(MulS(t, t) + 2 * t)

\* The grid cell <<x, y>> of each of the six faces of LOD i:
\* x = face % 3, y = i > 2 ? 1 : 0.
PlanesOfLod(i) ==
    [face \in 1..6 |-> <<(face - 1) % 3, IF i > 2 THEN 1 ELSE 0>>]

RECURSIVE ConstructorLoop(_, _, _)
ConstructorLoop(i, lod, st) ==
    IF i >= TOTAL_LODS THEN st
    ELSE LET sizeLod == SizeOfLod(lod)
         IN  ConstructorLoop(i + 1, NextLod(lod),
                 [lodSize   |-> Append(st.lodSize, sizeLod),
                  sigma     |-> Append(st.sigma, SigmaOfLod(i, sizeLod)),
                  roughness |-> Append(st.roughness,
                                       RoughnessOfLod(i, sizeLod)),
                  lodPlanes |-> Append(st.lodPlanes, PlanesOfLod(i))])

Constructor ==
    ConstructorLoop(0, LOD_MAX,
                    [lodSize |-> <<>>, sigma |-> <<>>, roughness |-> <<>>,
                     lodPlanes |-> <<>>])

\* ------------------------------------------------------------- inputs
\* A source texture is a uniform colour field (its value, in fixed point)
\* or an image whose texels differ.
Image == 0 - 3

SourceTextures ==
    { [id |-> 1, field |-> Scale, encoding |-> "Linear"],
      [id |-> 2, field |-> (2 * Scale) \div 5, encoding |-> "RGBE"],
      [id |-> 3, field |-> Image, encoding |-> "sRGB"] }

SourceOf(id) == CHOOSE t \in SourceTextures : t.id = id

\* The number of generation calls made on the generator.
MaxCalls == 2

NullTexture == [kind |-> "null", id |-> 0]
SourceTexture(id) == [kind |-> "source", id |-> id]
TargetTexture(id) == [kind |-> "target", id |-> id]
NoTarget == 0

\* ---------------------------------------------------------- the state
VARIABLES
    lodSize,       \* this[$lodSize]
    sigma,         \* this[$sigma]
    roughness,     \* this[$roughness]
    lodPlanes,     \* this[$lodPlanes]
    uniforms,      \* this[$blurShader].uniforms
    viewport,      \* the renderer's viewport
    renderTarget,  \* the renderer's render target
    nextTarget,    \* the id of the next WebGLRenderTarget allocated
    created,       \* the render targets allocated so far
    disposed,      \* the render targets disposed, one entry per dispose()
    returned,      \* the ids of the atlases returned to the caller
    calls,         \* generation calls completed
    pc,            \* the position of the generation call in progress
    source,        \* its argument equirectangular (id), 0 when idle
    atlas,         \* its cubeUVRenderTarget
    pingPong,      \* its pingPongRenderTarget
    lodIndex,      \* the loop variable i of applyPMREM
    draws,         \* the draws renderer.render has issued in this call
    blurs,         \* the gaussianBlur invocations of this call
    console,       \* the console.log diagnostics of this call
    second         \* a second PMREMGenerator instance and its call

vars == <<lodSize, sigma, roughness, lodPlanes, uniforms, viewport, renderTarget,
          nextTarget, created, disposed, returned, calls, pc, source,
          atlas, pingPong, lodIndex, draws, blurs, console, second>>

planner == <<lodSize, sigma, roughness, lodPlanes>>

\* ------------------------------------------------------------ atlas
\* The renderer is an external device.  A draw is recorded with the
\* uniforms, viewport and render target it is issued under; for the texels
\* it leaves behind, the device is taken to do what the engine asks of it:
\* the draw writes the shader's output over its viewport of its target.
Rect(x, y, w, h) == [x |-> x, y |-> y, w |-> w, h |-> h]

\* renderer.setViewport(0, 0, 3 * SIZE_MAX, 2 * SIZE_MAX)
CopyViewport == Rect(0, 0, 3 * SIZE_MAX, 2 * SIZE_MAX)

\* The viewport gaussianBlur sets for lodOut.
BlurViewportMutant(lodOut, outputSize) ==
    LET x == Max(0, 3 * SIZE_MAX - 2 * outputSize)
        y == (IF lodOut = 0 THEN 0 ELSE SIZE_MAX)
             + outputSize * (IF lodOut > LOD_MAX - LOD_MIN
                             THEN lodOut - LOD_MAX + LOD_MIN
                             ELSE 0)
    IN  [x |-> x, y |-> y, w |-> 3 * outputSize, h |-> 2 * outputSize]
BlurViewport(lodOut, outputSize) ==
    LET x == 3 * Max(0, SIZE_MAX - 2 * outputSize)
        y == (IF lodOut = 0 THEN 0 ELSE SIZE_MAX)
             + outputSize * (IF lodOut > LOD_MAX - LOD_MIN
                             THEN lodOut - LOD_MAX + LOD_MIN
                             ELSE 0)
    IN  Rect(x, y, 3 * outputSize, 2 * outputSize)

Inside(px, py, r) ==
    /\ r.x <= px /\ px < r.x + r.w
    /\ r.y <= py /\ py < r.y + r.h

Intersects(r, q) ==
    /\ r.x < q.x + q.w /\ q.x < r.x + r.w
    /\ r.y < q.y + q.h /\ q.y < r.y + r.h

\* Every viewport is made of whole blocks of this size.
BlockW == 3 * Pow2(LOD_MIN)
BlockH == Pow2(LOD_MIN)

\* A new render target's texels.
InitialTexel == 0

\* The texel of target t at (px, py): what the last draw into t whose
\* viewport holds it wrote there.
RECURSIVE TexelAt(_, _, _, _, _)
TexelAt(log, k, t, px, py) ==
    IF k = 0 THEN InitialTexel
    ELSE IF log[k].target = t /\ Inside(px, py, log[k].viewport)
         THEN log[k].out
         ELSE TexelAt(log, k - 1, t, px, py)

\* The region of a cube-UV texture that a lookup at LOD mip addresses.
CubeUVRegion(mip) ==
    IF mip = 0 THEN CopyViewport ELSE BlurViewport(mip, lodSize[Lod(mip)])

BlocksOf(r) ==
    { <<bx * BlockW, by * BlockH>> :
        bx \in (r.x \div BlockW)..((r.x + r.w) \div BlockW - 1),
        by \in (r.y \div BlockH)..((r.y + r.h) \div BlockH - 1) }

\* The texel values target t holds in rectangle r.
ValuesIn(log, t, r) == { TexelAt(log, Len(log), t, b[1], b[2]) : b \in BlocksOf(r) }

\* The field a lookup sees in rectangle r of target t: its one value, or
\* an image when its texels differ.
FieldIn(log, t, r) ==
    LET vals == ValuesIn(log, t, r)
    IN  IF Cardinality(vals) = 1 THEN CHOOSE v \in vals : TRUE ELSE Image

\* ------------------------------------------------------ gaussianBlur
\* const n = Math.ceil(standardDeviations * standardDeviationRadians *
\*                     inputSize * 2 / Math.PI)
SampleCountMutant(sdr, inputSize) ==
    Min(MAX_SAMPLES, CeilDiv(standardDeviations * sdr * inputSize * 2, PI))
SampleCount(sdr, inputSize) ==
    CeilDiv(standardDeviations * sdr * inputSize * 2, PI)

\* standardDeviations / ((n - 1) * Math.sqrt(2 * Math.PI))
InverseIntegral(n) ==
    IF n = 1 THEN Infinity
    ELSE DivS(standardDeviations * Scale, (n - 1) * Sqrt(2 * PI))

\* weights[i] = inverseIntegral * Math.exp(-x * x / 2) with
\* x = standardDeviations * i / (n - 1); 0 / 0 and Infinity * 0 are NaN.
WeightMutant(i, n) ==
    IF n = 1 THEN NaN
    ELSE LET x == (standardDeviations * i * Scale) \div (n - 1)
         IN  IF x >= 8 * Scale THEN 0
             ELSE MulS(InverseIntegral(n), ExpNeg(MulS(x, x)))
Weight(i, n) ==
    IF n = 1 THEN NaN
    ELSE LET x == (standardDeviations * i * Scale) \div (n - 1)
         IN  IF x >= 8 * Scale THEN 0
             ELSE MulS(InverseIntegral(n), ExpNeg(MulS(x, x) \div 2))

\* for (let i = 0; i < MAX_SAMPLES; ++i) weights.push(...)
Weights(n) == [k \in 1..MAX_SAMPLES |-> Weight(k - 1, n)]

\* standardDeviationRadians * standardDeviations / (n - 1)
DTheta(sdr, n) ==
    IF n = 1 THEN Infinity ELSE (sdr * standardDeviations) \div (n - 1)

\* ------------------------------------------------------ the shader
\* The loop of the fragment shader over a field whose every sample is v:
\* for (i = 0; i < n; i++) { if (i >= samples) break; for dir in -1, 1
\* (i = 0 once) gl_FragColor.rgb += weights[i] * sample }.
RECURSIVE ShaderLoop(_, _, _, _)
ShaderLoop(i, acc, u, v) ==
    IF i >= MAX_SAMPLES \/ i >= u.samples THEN acc
    ELSE LET w == u.weights[i + 1]
             tap == IF w = NaN THEN NaN ELSE MulS(w, v)
         IN  IF tap = NaN \/ acc = NaN THEN NaN
             ELSE ShaderLoop(i + 1, acc + (IF i = 0 THEN tap ELSE 2 * tap),
                             u, v)

\* The iterations of that loop that sample.
ShaderTaps(u) == Min(u.samples, MAX_SAMPLES)

\* The sum of the weights the shader applies: the centre once, the rest in
\* both directions.
BlurGain(u) == ShaderLoop(0, 0, u, Scale)

\* gl_FragColor of a draw, as the field it writes over its viewport.
FragmentShader(u, log) ==
    IF u.copyEquirectangular
    THEN IF u.envMap.kind = "source" THEN SourceOf(u.envMap.id).field
         ELSE Image
    ELSE LET v == IF u.envMap.kind = "target"
                  THEN FieldIn(log, u.envMap.id, CubeUVRegion(u.mipInt))
                  ELSE Image
         IN  IF v = Image THEN Image ELSE ShaderLoop(0, 0, u, v)

\* renderer.render(scene, camera): one draw of the planes of LOD lod with
\* the uniforms, viewport and render target as they are now.
Render(u, vp, rt, lod, log) ==
    [target   |-> rt,
     viewport |-> vp,
     uniforms |-> u,
     planes   |-> lod,
     out      |-> FragmentShader(u, log)]

\* ------------------------------------------------------ the engine
EncodingOf(t) == (CHOOSE r \in created : r.id = t).encoding

\* new BlurShader(MAX_SAMPLES): the uniforms as declared.
InitialUniforms ==
    [envMap              |-> NullTexture,
     copyEquirectangular |-> FALSE,
     samples             |-> 1,
     weights             |-> <<>>,
     latitudinal         |-> FALSE,
     dTheta              |-> 0,
     mipInt              |-> 0,
     inputEncoding       |-> "Linear",
     outputEncoding      |-> "Linear"]

\* A second generator as constructed.  shared tells whether it was given
\* the renderer of the first (constructor(private renderer)); its own
\* renderer's viewport and render target are kept here when it was not.
SecondGenerator(shared) ==
    [shared       |-> shared,
     uniforms     |-> InitialUniforms,
     viewport     |-> Rect(0, 0, 0, 0),
     renderTarget |-> NoTarget,
     pc           |-> "idle",
     source       |-> 0,
     atlas        |-> NoTarget,
     pingPong     |-> NoTarget,
     lodIndex     |-> 0,
     draws        |-> <<>>]

Init ==
    /\ second = SecondGenerator(FALSE)
    /\ lodSize = Constructor.lodSize
    /\ sigma = Constructor.sigma
    /\ roughness = Constructor.roughness
    /\ lodPlanes = Constructor.lodPlanes
    /\ uniforms = InitialUniforms
    /\ viewport = Rect(0, 0, 0, 0)
    /\ renderTarget = NoTarget
    /\ nextTarget = 1
    /\ created = {}
    /\ disposed = <<>>
    /\ returned = {}
    /\ calls = 0
    /\ pc = "idle"
    /\ source = 0
    /\ atlas = NoTarget
    /\ pingPong = NoTarget
    /\ lodIndex = 0
    /\ draws = <<>>
    /\ blurs = <<>>
    /\ console = <<>>

\* equirectangularToPMREM(equirectangular), up to the return of
\* equirectangularToCubeUV: the atlas is allocated and the copy is drawn.
EquirectangularToCubeUVMutant(tex) ==
    /\ pc = "idle"
    /\ calls < MaxCalls
    /\ LET u  == [uniforms EXCEPT !.copyEquirectangular = TRUE]
           rt == nextTarget
       IN  /\ created' = created \cup
                  {[id |-> rt, width |-> 3 * SIZE_MAX, height |-> 3 * SIZE_MAX,
                    encoding |-> tex.encoding]}
           /\ nextTarget' = nextTarget + 1
           /\ atlas' = rt
           /\ uniforms' = u
           /\ viewport' = CopyViewport
           /\ renderTarget' = rt
           /\ draws' = <<Render(u, CopyViewport, rt, 0, <<>>)>>
    /\ source' = tex.id
    /\ pingPong' = NoTarget
    /\ lodIndex' = 0
    /\ blurs' = <<>>
    /\ console' = <<>>
    /\ pc' = "applyPMREM"
    /\ UNCHANGED <<second, planner, disposed, returned, calls>>
EquirectangularToCubeUV(tex) ==
    /\ pc = "idle"
    /\ calls < MaxCalls
    /\ LET u  == [uniforms EXCEPT !.copyEquirectangular = TRUE,
                                  !.envMap = SourceTexture(tex.id)]
           rt == nextTarget
       IN  /\ created' = created \cup
                  {[id |-> rt, width |-> 3 * SIZE_MAX, height |-> 3 * SIZE_MAX,
                    encoding |-> tex.encoding]}
           /\ nextTarget' = nextTarget + 1
           /\ atlas' = rt
           /\ uniforms' = u
           /\ viewport' = CopyViewport
           /\ renderTarget' = rt
           /\ draws' = <<Render(u, CopyViewport, rt, 0, <<>>)>>
    /\ source' = tex.id
    /\ pingPong' = NoTarget
    /\ lodIndex' = 0
    /\ blurs' = <<>>
    /\ console' = <<>>
    /\ pc' = "applyPMREM"
    /\ UNCHANGED <<second, planner, disposed, returned, calls>>

\* applyPMREM: const pingPongRenderTarget = cubeUVRenderTarget.clone()
ApplyPMREMClone ==
    /\ pc = "applyPMREM"
    /\ created' = created \cup
           {[id |-> nextTarget, width |-> 3 * SIZE_MAX, height |-> 3 * SIZE_MAX,
             encoding |-> EncodingOf(atlas)]}
    /\ pingPong' = nextTarget
    /\ nextTarget' = nextTarget + 1
    /\ lodIndex' = 1
    /\ pc' = "blur"
    /\ UNCHANGED <<second, planner, uniforms, viewport, renderTarget, disposed,
                   returned, calls, source, atlas, draws, blurs, console>>

\* sigma[i] * sigma[i] - sigma[i - 1] * sigma[i - 1]
Radicand(i) ==
    MulS(sigma[Lod(i)], sigma[Lod(i)])
    - MulS(sigma[Lod(i - 1)], sigma[Lod(i - 1)])

\* Math.sqrt(sigma[i] * sigma[i] - sigma[i - 1] * sigma[i - 1])
IncrementalSigmaMutant(i) == Radicand(i)
IncrementalSigma(i) == Sqrt(Radicand(i))

\* The uniforms gaussianBlur writes before its first render, from u.
BlurUniformsMutant(u, sdr, n, cubeUV, lodIn) ==
    [u EXCEPT !.copyEquirectangular = FALSE,
              !.samples = n,
              !.weights = Weights(n),
              !.dTheta = DTheta(sdr, n),
              !.latitudinal = FALSE,
              !.envMap = TargetTexture(cubeUV),
              !.mipInt = lodIn]
BlurUniforms(u, sdr, n, cubeUV, lodIn) ==
    [u EXCEPT !.copyEquirectangular = FALSE,
              !.samples = n,
              !.weights = Weights(n),
              !.dTheta = DTheta(sdr, n),
              !.inputEncoding = EncodingOf(cubeUV),
              !.outputEncoding = EncodingOf(cubeUV),
              !.latitudinal = FALSE,
              !.envMap = TargetTexture(cubeUV),
              !.mipInt = lodIn]

\* if (n > MAX_SAMPLES) console.log(.., 'as it requested ', n,
\* ' samples when the maximum is set to ', MAX_SAMPLES)
ConsoleLogMutant(log, n) ==
    IF n >= MAX_SAMPLES
    THEN Append(log, [requested |-> n, maximum |-> MAX_SAMPLES])
    ELSE log
ConsoleLog(log, n) ==
    IF n > MAX_SAMPLES
    THEN Append(log, [requested |-> n, maximum |-> MAX_SAMPLES])
    ELSE log

\* gaussianBlur(cubeUVRenderTarget, pingPongRenderTarget, lodIn, lodOut,
\* standardDeviationRadians) up to its first render: the pass that reads
\* the atlas and writes the ping-pong target.
GaussianBlurFirstPass(lodIn, lodOut, sdr) ==
    /\ pc = "blur"
    /\ LET n  == SampleCount(sdr, lodSize[Lod(lodIn)])
           u  == BlurUniforms(uniforms, sdr, n, atlas, lodIn)
           vp == BlurViewport(lodOut, lodSize[Lod(lodOut)])
       IN  /\ console' = ConsoleLog(console, n)
           /\ blurs' = Append(blurs, [lodIn |-> lodIn, lodOut |-> lodOut,
                                      sdr |-> sdr, n |-> n])
           /\ uniforms' = u
           /\ viewport' = vp
           /\ renderTarget' = pingPong
           /\ draws' = Append(draws, Render(u, vp, pingPong, lodOut, draws))
    /\ pc' = "blur2"
    /\ UNCHANGED <<second, planner, nextTarget, created, disposed, returned, calls,
                   source, atlas, pingPong, lodIndex>>

\* The rest of gaussianBlur: the pass that reads the ping-pong target and
\* writes the atlas, and the loop's i++.
GaussianBlurSecondPassMutant ==
    /\ pc = "blur2"
    /\ LET lodOut == blurs[Len(blurs)].lodOut
           u == [uniforms EXCEPT !.latitudinal = TRUE, !.mipInt = lodOut]
       IN  /\ uniforms' = u
           /\ renderTarget' = atlas
           /\ draws' = Append(draws, Render(u, viewport, atlas, lodOut, draws))
    /\ lodIndex' = lodIndex + 1
    /\ pc' = "blur"
    /\ UNCHANGED <<second, planner, viewport, nextTarget, created, disposed, returned,
                   calls, source, atlas, pingPong, blurs, console>>
GaussianBlurSecondPass ==
    /\ pc = "blur2"
    /\ LET lodOut == blurs[Len(blurs)].lodOut
           u == [uniforms EXCEPT !.latitudinal = TRUE,
                                 !.envMap = TargetTexture(pingPong),
                                 !.mipInt = lodOut]
       IN  /\ uniforms' = u
           /\ renderTarget' = atlas
           /\ draws' = Append(draws, Render(u, viewport, atlas, lodOut, draws))
    /\ lodIndex' = lodIndex + 1
    /\ pc' = "blur"
    /\ UNCHANGED <<second, planner, viewport, nextTarget, created, disposed, returned,
                   calls, source, atlas, pingPong, blurs, console>>

\* applyPMREM after its loop: pingPongRenderTarget.dispose()
ApplyPMREMDisposeMutant ==
    /\ pc = "blur"
    /\ lodIndex >= TOTAL_LODS
    /\ disposed' = Append(disposed, atlas)
    /\ pc' = "return"
    /\ UNCHANGED <<second, planner, uniforms, viewport, renderTarget, nextTarget,
                   created, returned, calls, source, atlas, pingPong,
                   lodIndex, draws, blurs, console>>
ApplyPMREMDispose ==
    /\ pc = "blur"
    /\ lodIndex >= TOTAL_LODS
    /\ disposed' = Append(disposed, pingPong)
    /\ pc' = "return"
    /\ UNCHANGED <<second, planner, uniforms, viewport, renderTarget, nextTarget,
                   created, returned, calls, source, atlas, pingPong,
                   lodIndex, draws, blurs, console>>

\* return cubeUVRenderTarget
ReturnMutant ==
    /\ pc = "return"
    /\ returned' = returned \cup {atlas}
    /\ calls' = calls + 1
    /\ pc' = "idle"
    /\ sigma' = Tail(sigma)
    /\ UNCHANGED <<second, lodSize, roughness, lodPlanes, uniforms, viewport,
                   renderTarget, nextTarget, created, disposed, source, atlas,
                   pingPong, lodIndex, draws, blurs, console>>
Return ==
    /\ pc = "return"
    /\ returned' = returned \cup {atlas}
    /\ calls' = calls + 1
    /\ pc' = "idle"
    /\ UNCHANGED <<second, planner, uniforms, viewport, renderTarget, nextTarget,
                   created, disposed, source, atlas, pingPong, lodIndex,
                   draws, blurs, console>>

\* for (let i = 1; i < TOTAL_LODS; i++) gaussianBlur(.., i - 1, i, sigma)
ApplyPMREMLoopMutant ==
    /\ lodIndex < TOTAL_LODS
    /\ GaussianBlurFirstPass(lodIndex, lodIndex, IncrementalSigma(lodIndex))
ApplyPMREMLoop ==
    /\ lodIndex < TOTAL_LODS
    /\ GaussianBlurFirstPass(lodIndex - 1, lodIndex, IncrementalSigma(lodIndex))

Next ==
    \/ \E tex \in SourceTextures : EquirectangularToCubeUV(tex)
    \/ ApplyPMREMClone
    \/ ApplyPMREMLoop
    \/ GaussianBlurSecondPass
    \/ ApplyPMREMDispose
    \/ Return

Spec == Init /\ [][Next]_vars

\* ------------------------------------- gaussianBlur over its inputs
\* gaussianBlur applied once to any destination LOD and any standard
\* deviation k * SigmaTexelStep / inputSize radians, k in 1..MaxSigmaSteps,
\* from the state in which applyPMREM first calls it.
SigmaTexelStep == (12 * Scale) \div 25
MaxSigmaSteps == 24

InitBlur ==
    \E tex \in SourceTextures :
        LET u == [InitialUniforms EXCEPT !.copyEquirectangular = TRUE,
                                         !.envMap = SourceTexture(tex.id)]
            target(id) == [id |-> id, width |-> 3 * SIZE_MAX,
                           height |-> 3 * SIZE_MAX, encoding |-> tex.encoding]
        IN  /\ second = SecondGenerator(FALSE)
            /\ lodSize = Constructor.lodSize
            /\ sigma = Constructor.sigma
            /\ roughness = Constructor.roughness
            /\ lodPlanes = Constructor.lodPlanes
            /\ uniforms = u
            /\ viewport = CopyViewport
            /\ renderTarget = 1
            /\ nextTarget = 3
            /\ created = {target(1), target(2)}
            /\ disposed = <<>>
            /\ returned = {}
            /\ calls = 0
            /\ pc = "blur"
            /\ source = tex.id
            /\ atlas = 1
            /\ pingPong = 2
            /\ lodIndex = 1
            /\ draws = <<Render(u, CopyViewport, 1, 0, <<>>)>>
            /\ blurs = <<>>
            /\ console = <<>>

GaussianBlurAny ==
    \E lodOut \in 1..(TOTAL_LODS - 1), k \in 1..MaxSigmaSteps :
        /\ blurs = <<>>
        /\ GaussianBlurFirstPass(lodOut - 1, lodOut,
               (k * SigmaTexelStep) \div lodSize[Lod(lodOut - 1)])

NextBlur ==
    \/ GaussianBlurAny
    \/ GaussianBlurSecondPass

SpecBlur == InitBlur /\ [][NextBlur]_vars

\* ---------------------------------- two generators, steps interleaved
\* The call of the second generator, step by step: the statements that
\* write its uniforms and select the viewport and the render target of its
\* renderer, then renderer.render.  The first generator makes one call by
\* the actions above.

\* The state of the renderer the second generator holds.
SecondRenderer ==
    IF second.shared
    THEN [viewport |-> viewport, renderTarget |-> renderTarget]
    ELSE [viewport |-> second.viewport, renderTarget |-> second.renderTarget]

\* this.renderer.setViewport(..) and this.renderer.setRenderTarget(..) of
\* the second generator, which becomes g.
SecondSelectMutant(g, vp, rt) ==
    /\ viewport' = vp
    /\ renderTarget' = rt
    /\ second' = g
SecondSelect(g, vp, rt) ==
    IF second.shared
    THEN /\ viewport' = vp
         /\ renderTarget' = rt
         /\ second' = g
    ELSE /\ second' = [g EXCEPT !.viewport = vp, !.renderTarget = rt]
         /\ UNCHANGED <<viewport, renderTarget>>

\* The render targets of the second call: identities no call of the first
\* generator is given.
SecondAtlas == 2 * MaxCalls + 1
SecondPingPong == 2 * MaxCalls + 2

\* equirectangularToCubeUV up to setRenderTarget.
SecondCopySelect(tex) ==
    /\ second.pc = "idle"
    /\ created' = created \cup
           {[id |-> SecondAtlas, width |-> 3 * SIZE_MAX,
             height |-> 3 * SIZE_MAX, encoding |-> tex.encoding]}
    /\ SecondSelect([second EXCEPT
                        !.uniforms.copyEquirectangular = TRUE,
                        !.uniforms.envMap = SourceTexture(tex.id),
                        !.source = tex.id,
                        !.atlas = SecondAtlas,
                        !.pc = "copyRender"],
                    CopyViewport, SecondAtlas)
    /\ UNCHANGED <<planner, uniforms, nextTarget, disposed, returned, calls,
                   pc, source, atlas, pingPong, lodIndex, draws, blurs,
                   console>>

\* renderer.render(scene, camera) of the second generator: the draw is
\* issued under the viewport and render target its renderer has now.
SecondRender ==
    /\ second.pc \in {"copyRender", "render1", "render2"}
    /\ second' = [second EXCEPT
           !.draws = Append(@, [target   |-> SecondRenderer.renderTarget,
                                viewport |-> SecondRenderer.viewport,
                                uniforms |-> second.uniforms,
                                planes   |-> second.lodIndex]),
           !.pc = IF @ = "copyRender" THEN "clone"
                  ELSE IF @ = "render1" THEN "select2" ELSE "select1",
           !.lodIndex = IF second.pc = "render2" THEN @ + 1 ELSE @]
    /\ UNCHANGED <<planner, uniforms, viewport, renderTarget, nextTarget,
                   created, disposed, returned, calls, pc, source, atlas,
                   pingPong, lodIndex, draws, blurs, console>>

\* const pingPongRenderTarget = cubeUVRenderTarget.clone()
SecondClone ==
    /\ second.pc = "clone"
    /\ created' = created \cup
           {[id |-> SecondPingPong, width |-> 3 * SIZE_MAX,
             height |-> 3 * SIZE_MAX, encoding |-> EncodingOf(second.atlas)]}
    /\ second' = [second EXCEPT !.pingPong = SecondPingPong, !.lodIndex = 1,
                                !.pc = "select1"]
    /\ UNCHANGED <<planner, uniforms, viewport, renderTarget, nextTarget,
                   disposed, returned, calls, pc, source, atlas, pingPong,
                   lodIndex, draws, blurs, console>>

\* gaussianBlur(.., i - 1, i, sigma) up to its first setRenderTarget.
SecondBlurSelect ==
    /\ second.pc = "select1"
    /\ second.lodIndex < TOTAL_LODS
    /\ LET lodOut == second.lodIndex
           lodIn  == lodOut - 1
           sdr    == IncrementalSigma(lodOut)
           n      == SampleCount(sdr, lodSize[Lod(lodIn)])
       IN  SecondSelect([second EXCEPT
                   !.uniforms = BlurUniforms(@, sdr, n, second.atlas, lodIn),
                   !.pc = "render1"],
               BlurViewport(lodOut, lodSize[Lod(lodOut)]), second.pingPong)
    /\ UNCHANGED <<planner, uniforms, nextTarget, created, disposed, returned,
                   calls, pc, source, atlas, pingPong, lodIndex, draws, blurs,
                   console>>

\* gaussianBlur from its first render to its second setRenderTarget; the
\* viewport is left as the renderer has it.
SecondBlurSelectBack ==
    /\ second.pc = "select2"
    /\ SecondSelect([second EXCEPT
               !.uniforms.latitudinal = TRUE,
               !.uniforms.envMap = TargetTexture(second.pingPong),
               !.uniforms.mipInt = second.lodIndex,
               !.pc = "render2"],
           SecondRenderer.viewport, second.atlas)
    /\ UNCHANGED <<planner, uniforms, nextTarget, created, disposed, returned,
                   calls, pc, source, atlas, pingPong, lodIndex, draws, blurs,
                   console>>

\* pingPongRenderTarget.dispose() and the return of the second call.
SecondDispose ==
    /\ second.pc = "select1"
    /\ second.lodIndex >= TOTAL_LODS
    /\ disposed' = Append(disposed, second.pingPong)
    /\ second' = [second EXCEPT !.pc = "done"]
    /\ UNCHANGED <<planner, uniforms, viewport, renderTarget, nextTarget,
                   created, returned, calls, pc, source, atlas, pingPong,
                   lodIndex, draws, blurs, console>>

InitTwo ==
    /\ \E shared \in BOOLEAN : second = SecondGenerator(shared)
    /\ lodSize = Constructor.lodSize
    /\ sigma = Constructor.sigma
    /\ roughness = Constructor.roughness
    /\ lodPlanes = Constructor.lodPlanes
    /\ uniforms = InitialUniforms
    /\ viewport = Rect(0, 0, 0, 0)
    /\ renderTarget = NoTarget
    /\ nextTarget = 1
    /\ created = {}
    /\ disposed = <<>>
    /\ returned = {}
    /\ calls = 0
    /\ pc = "idle"
    /\ source = 0
    /\ atlas = NoTarget
    /\ pingPong = NoTarget
    /\ lodIndex = 0
    /\ draws = <<>>
    /\ blurs = <<>>
    /\ console = <<>>

\* The texture the second call is given.
SecondSource == CHOOSE tex \in SourceTextures : tex.encoding = "RGBE"

\* The one call of the first generator.
FirstCall == calls = 0 /\ Next

\* No draw so far was issued under a viewport or a render target that
\* another call selected: the two calls are followed up to the first such
\* draw, and no further.
NoForeignDraw ==
    \A d \in {draws, second.draws} : \A j \in 1..Len(d) :
        /\ d[j].viewport = (IF j = 1 THEN CopyViewport
                            ELSE BlurViewport(j \div 2, lodSize[Lod(j \div 2)]))
        /\ d[j].target = (IF d = draws
                          THEN (IF j % 2 = 1 THEN atlas ELSE pingPong)
                          ELSE (IF j % 2 = 1 THEN second.atlas
                                ELSE second.pingPong))

NextTwo ==
    \/ NoForeignDraw /\ FirstCall
    \/ NoForeignDraw /\ SecondCopySelect(SecondSource)
    \/ NoForeignDraw /\ SecondRender
    \/ NoForeignDraw /\ SecondClone
    \/ NoForeignDraw /\ SecondBlurSelect
    \/ NoForeignDraw /\ SecondBlurSelectBack
    \/ NoForeignDraw /\ SecondDispose

SpecTwo == InitTwo /\ [][NextTwo]_vars

\* ------------------------- a generation whose blurs can be oversized
\* The generation call, in which an iteration of the loop of applyPMREM may
\* hand gaussianBlur a standard deviation of MaxSigmaSteps * SigmaTexelStep
\* / inputSize radians, which asks for more than MAX_SAMPLES samples, in
\* place of the one computed from the sigma list; at most MaxOversized
\* iterations of a call do.
MaxOversized == 1

Oversized == { k \in 1..Len(blurs) : blurs[k].n > MAX_SAMPLES }

ApplyPMREMLoopOversized ==
    /\ lodIndex < TOTAL_LODS
    /\ Cardinality(Oversized) < MaxOversized
    /\ GaussianBlurFirstPass(lodIndex - 1, lodIndex,
           (MaxSigmaSteps * SigmaTexelStep) \div lodSize[Lod(lodIndex - 1)])

NextOversized ==
    \/ \E tex \in SourceTextures : EquirectangularToCubeUV(tex)
    \/ ApplyPMREMClone
    \/ ApplyPMREMLoop
    \/ ApplyPMREMLoopOversized
    \/ GaussianBlurSecondPass
    \/ ApplyPMREMDispose
    \/ Return

SpecOversized == Init /\ [][NextOversized]_vars

\* ------------------------------------------------------------ claims
\* The draws of the blur invocation blurs[k]: the copy is draws[1].
FirstDraw(k) == 2 * k
SecondDraw(k) == 2 * k + 1
BlurDone(k) == SecondDraw(k) <= Len(draws)

\* C1: after construction the stored resolution of LOD i is
\* 2^(LOD_MAX - i) for i <= LOD_MAX - LOD_MIN and 2^LOD_MIN for every
\* larger i, for all TOTAL_LODS levels.
C1_Resolutions ==
    /\ Len(lodSize) = TOTAL_LODS
    /\ \A i \in 0..(TOTAL_LODS - 1) :
           lodSize[Lod(i)] = IF i <= LOD_MAX - LOD_MIN
                             THEN Pow2(LOD_MAX - i)
                             ELSE Pow2(LOD_MIN)

\* The constructor has run and both the halving and the held levels exist.
C1_Witness ==
    /\ pc = "idle" /\ calls = 0
    /\ lodSize[Lod(1)] * 2 = lodSize[Lod(0)]
    /\ lodSize[Lod(TOTAL_LODS - 1)] = lodSize[Lod(LOD_MAX - LOD_MIN)]

\* C2: a call draws the copy into LOD 0 first and then blurs for
\* i = 1, 2, .., TOTAL_LODS - 1 in ascending order, each from LOD i - 1
\* into LOD i, never into LOD 0; it returns only after all of them.
C2_CopyThenBlursInOrder ==
    /\ Len(draws) >= 1 =>
           /\ draws[1].uniforms.copyEquirectangular
           /\ draws[1].target = atlas
           /\ draws[1].viewport = CopyViewport
           /\ draws[1].planes = 0
    /\ \A k \in 1..Len(draws) : k > 1 => ~draws[k].uniforms.copyEquirectangular
    /\ \A k \in 1..Len(blurs) :
           /\ blurs[k].lodOut = k
           /\ blurs[k].lodIn = k - 1
           /\ blurs[k].lodOut # 0
    /\ Len(blurs) <= TOTAL_LODS - 1
    /\ pc \in {"return", "idle"} /\ calls + Len(draws) > 0 =>
           /\ Len(blurs) = TOTAL_LODS - 1
           /\ Len(draws) = 1 + 2 * (TOTAL_LODS - 1)

\* A call has returned after its copy and all its blurs.
C2_Witness ==
    /\ pc = "idle" /\ calls = 1
    /\ Len(blurs) = TOTAL_LODS - 1
    /\ blurs[TOTAL_LODS - 1].lodOut = TOTAL_LODS - 1

\* C3: a blur invocation issues exactly two draws: the first
\* (latitudinal = false) samples the atlas at the source LOD and writes the
\* ping-pong target, the second (latitudinal = true) samples the ping-pong
\* target at the destination LOD and writes the atlas, under the same
\* viewport; no draw samples the texture of the target it writes.
C3_TwoPasses ==
    /\ Len(draws) >= 1 =>
           Len(draws) = 1 + 2 * Len(blurs) - (IF pc = "blur2" THEN 1 ELSE 0)
    /\ \A k \in 1..Len(blurs) :
           LET a == draws[FirstDraw(k)]
           IN  /\ ~a.uniforms.latitudinal
               /\ a.uniforms.envMap = TargetTexture(atlas)
               /\ a.uniforms.mipInt = blurs[k].lodIn
               /\ a.target = pingPong
               /\ a.viewport = BlurViewport(blurs[k].lodOut,
                                            lodSize[Lod(blurs[k].lodOut)])
               /\ BlurDone(k) =>
                      LET b == draws[SecondDraw(k)]
                      IN  /\ b.uniforms.latitudinal
                          /\ b.uniforms.envMap = TargetTexture(pingPong)
                          /\ b.uniforms.mipInt = blurs[k].lodOut
                          /\ b.target = atlas
                          /\ b.viewport = a.viewport
    /\ Len(blurs) >= 1 => atlas # pingPong
    /\ \A k \in 1..Len(draws) :
           draws[k].uniforms.envMap # TargetTexture(draws[k].target)

\* Both passes of a blur invocation have been drawn.
C3_Witness ==
    /\ Len(blurs) >= 1 /\ BlurDone(Len(blurs))
    /\ draws[SecondDraw(Len(blurs))].uniforms.latitudinal

Range(f) == { f[k] : k \in DOMAIN f }

\* C4: the rectangles written for distinct LODs are pairwise disjoint
\* (LOD 0's is the copy viewport, LOD i's the blur viewport of i).
C4_RegionsDisjoint ==
    \A a, b \in 1..Len(draws) :
        draws[a].planes # draws[b].planes =>
            ~Intersects(draws[a].viewport, draws[b].viewport)

\* C5: after the copy draw no draw into the atlas has a viewport that
\* intersects LOD 0's region (the copy viewport), so that region still
\* holds what the copy wrote when the call returns.
C5_Lod0Untouched ==
    \A k \in 2..Len(draws) :
        draws[k].target = atlas =>
            ~Intersects(draws[k].viewport, CopyViewport)

\* weights[0] + 2 * (weights[1] + .. + weights[last]); NaN if one is.
RECURSIVE KernelSum(_, _)
KernelSum(w, last) ==
    IF last = 0 THEN w[1]
    ELSE LET rest == KernelSum(w, last - 1)
         IN  IF rest = NaN \/ w[last + 1] = NaN THEN NaN
             ELSE rest + 2 * w[last + 1]

\* |a - 1.0| <= eps, for a number a.
NearOne(a, eps) == IsFinite(a) /\ a - Scale <= eps /\ Scale - a <= eps

\* 1e-3
Tolerance == Scale \div (10 * 10 * 10)

\* The sample count the arguments of a blur invocation ask for.
Requested(b) ==
    CeilDiv(standardDeviations * b.sdr * lodSize[Lod(b.lodIn)] * 2, PI)

\* C6, as stated: when the sample count n of a blur invocation exceeds
\* MAX_SAMPLES, the samples uniform is MAX_SAMPLES and the weights passed
\* are normalized: weights[0] + 2 * sum of weights[1..MAX_SAMPLES-1] is 1.0
\* within tolerance.
C6_ClampedAndNormalized ==
    \A k \in 1..Len(blurs) :
        Requested(blurs[k]) > MAX_SAMPLES =>
            LET u == draws[FirstDraw(k)].uniforms
            IN  /\ u.samples = MAX_SAMPLES
                /\ NearOne(KernelSum(u.weights, MAX_SAMPLES - 1), Tolerance)

\* C6, amended: when n exceeds MAX_SAMPLES the samples uniform is n itself;
\* only the loop bound of the shader limits the taps to MAX_SAMPLES; the
\* MAX_SAMPLES weights passed are those of the n-sample kernel with its
\* tail cut off, and their sum stays below 0.997.
C6_ClippedNotNormalized ==
    \A k \in 1..Len(blurs) :
        Requested(blurs[k]) > MAX_SAMPLES =>
            LET u == draws[FirstDraw(k)].uniforms
            IN  /\ u.samples = Requested(blurs[k])
                /\ Len(u.weights) = MAX_SAMPLES
                /\ ShaderTaps(u) = MAX_SAMPLES
                /\ \A i \in 1..MAX_SAMPLES : IsFinite(u.weights[i])
                /\ KernelSum(u.weights, MAX_SAMPLES - 1) = BlurGain(u)
                /\ BlurGain(u) < Scale - 3 * Tolerance

\* A blur invocation whose sample count exceeds MAX_SAMPLES has drawn.
C6_Witness ==
    /\ Len(blurs) = 1 /\ BlurDone(1)
    /\ Requested(blurs[1]) > MAX_SAMPLES
    /\ draws[FirstDraw(1)].uniforms.samples > MAX_SAMPLES

\* C7, as stated: for any sample count n from 1 to MAX_SAMPLES the weights
\* satisfy |weights[0] + 2 * sum of weights[1..n-1] - 1.0| <= 1e-3.
C7_WeightsSumToOne ==
    \A k \in 1..Len(blurs) :
        LET u == draws[FirstDraw(k)].uniforms
        IN  1 <= u.samples /\ u.samples <= MAX_SAMPLES =>
                NearOne(KernelSum(u.weights, u.samples - 1), Tolerance)

\* C7, amended: for any sample count n from 3 to MAX_SAMPLES the weights
\* satisfy |weights[0] + 2 * sum of weights[1..n-1] - 1.0| <= 3e-3.
C7_WeightsSumNearOne ==
    \A k \in 1..Len(blurs) :
        LET u == draws[FirstDraw(k)].uniforms
        IN  3 <= u.samples /\ u.samples <= MAX_SAMPLES =>
                NearOne(KernelSum(u.weights, u.samples - 1), 3 * Tolerance)

\* A blur invocation with MAX_SAMPLES samples has drawn with its weights.
C7_Witness ==
    \E k \in 1..Len(blurs) :
        /\ BlurDone(k)
        /\ draws[FirstDraw(k)].uniforms.samples = MAX_SAMPLES
        /\ KernelSum(draws[FirstDraw(k)].uniforms.weights, MAX_SAMPLES - 1) < Scale

\* C8: the stored sigma values are non-decreasing in the LOD index, so the
\* radicand of every incremental sigma is non-negative.
C8_SigmaNonDecreasing ==
    /\ Len(sigma) = TOTAL_LODS
    /\ \A i \in 1..(TOTAL_LODS - 1) :
           /\ sigma[Lod(i)] >= sigma[Lod(i - 1)]
           /\ Radicand(i) >= 0

\* The blur loop has taken the incremental sigma across the boundary
\* between the resolution-derived and the fixed-roughness levels.
C8_Witness ==
    /\ Len(blurs) > LOD_MAX - LOD_MIN
    /\ blurs[LOD_MAX - LOD_MIN + 1].sdr > 0
    /\ sigma[Lod(LOD_MAX - LOD_MIN + 1)] > sigma[Lod(LOD_MAX - LOD_MIN)]

CreatedIds == { t.id : t \in created }

\* C9: a call creates one scratch target and disposes it exactly once,
\* after its last draw and before it returns; the atlas it returns is the
\* target of the copy and of every second pass and is never disposed;
\* between calls every scratch target is disposed and no atlas is.
C9_ScratchLifetime ==
    /\ pc \in {"blur", "blur2"} =>
           /\ pingPong \in CreatedIds
           /\ pingPong \notin Range(disposed)
    /\ pc = "return" =>
           /\ disposed[Len(disposed)] = pingPong
           /\ Len(draws) = 1 + 2 * (TOTAL_LODS - 1)
    /\ Len(disposed) = calls + (IF pc = "return" THEN 1 ELSE 0)
    /\ Cardinality(Range(disposed)) = Len(disposed)
    /\ Range(disposed) \cap returned = {}
    /\ atlas \notin Range(disposed)
    /\ Cardinality(returned) = calls
    /\ pc = "idle" =>
           /\ CreatedIds = Range(disposed) \cup returned
           /\ calls > 0 => atlas \in returned
    /\ \A k \in 1..Len(draws) : k % 2 = 1 => draws[k].target = atlas

\* Two calls have returned, each having disposed its scratch target.
C9_Witness ==
    /\ pc = "idle" /\ calls >= 2
    /\ Len(disposed) >= 2
    /\ returned # {}

\* C10: with a source of one constant colour c, every texel of every LOD
\* region of the returned atlas equals c.
C10_ConstantPreserved ==
    pc = "return" /\ SourceOf(source).field # Image =>
        \A lod \in 0..(TOTAL_LODS - 1) :
            ValuesIn(draws, atlas, CubeUVRegion(lod)) = {SourceOf(source).field}

\* The blur invocations up to the k-th whose sample count exceeds
\* MAX_SAMPLES.
OversizedUpTo(k) == { j \in 1..k : blurs[j].n > MAX_SAMPLES }

\* C11: a blur invocation whose sample count n exceeds MAX_SAMPLES emits
\* exactly one diagnostic, naming n and MAX_SAMPLES, and one with
\* n <= MAX_SAMPLES emits none; its two draws are issued with finite
\* weights all the same, and the call goes on through every remaining LOD
\* and returns the atlas.
C11_DiagnosticAndContinue ==
    /\ Len(console) = Cardinality(OversizedUpTo(Len(blurs)))
    /\ \A k \in 1..Len(blurs) :
           /\ blurs[k].n > MAX_SAMPLES =>
                  console[Cardinality(OversizedUpTo(k))]
                      = [requested |-> blurs[k].n, maximum |-> MAX_SAMPLES]
           /\ FirstDraw(k) <= Len(draws)
           /\ draws[FirstDraw(k)].planes = blurs[k].lodOut
           /\ \A i \in 1..MAX_SAMPLES :
                  IsFinite(draws[FirstDraw(k)].uniforms.weights[i])
           /\ (k < Len(blurs) \/ pc # "blur2") =>
                  /\ BlurDone(k)
                  /\ draws[SecondDraw(k)].planes = blurs[k].lodOut
           /\ blurs[k].lodOut = k
    /\ pc \in {"return", "idle"} /\ calls + Len(draws) > 0 =>
           Len(blurs) = TOTAL_LODS - 1
    /\ pc = "idle" /\ calls > 0 => atlas \in returned

\* A call in which a blur before the last was oversized has returned.
C11_Witness ==
    /\ pc = "idle" /\ calls >= 1
    /\ Len(console) >= 1
    /\ \E k \in 1..(TOTAL_LODS - 2) : blurs[k].n > MAX_SAMPLES
    /\ Len(blurs) = TOTAL_LODS - 1 /\ BlurDone(TOTAL_LODS - 1)

\* The draws d of a call with atlas a and scratch target p are each issued
\* with the render target, the viewport and the uniforms that call set for
\* it: d[1] is the copy, d[2 * i] and d[2 * i + 1] the passes of LOD i.
OwnDraws(d, a, p) ==
    \A j \in 1..Len(d) :
        LET lod == j \div 2
            u   == d[j].uniforms
        IN  IF j = 1
            THEN /\ d[j].target = a
                 /\ d[j].viewport = CopyViewport
                 /\ u.copyEquirectangular
                 /\ u.envMap.kind = "source"
            ELSE /\ d[j].viewport = BlurViewport(lod, lodSize[Lod(lod)])
                 /\ d[j].planes = lod
                 /\ ~u.copyEquirectangular
                 /\ u.samples = SampleCount(IncrementalSigma(lod),
                                            lodSize[Lod(lod - 1)])
                 /\ IF j % 2 = 0
                    THEN /\ d[j].target = p
                         /\ u.envMap = TargetTexture(a)
                         /\ u.mipInt = lod - 1
                         /\ ~u.latitudinal
                    ELSE /\ d[j].target = a
                         /\ u.envMap = TargetTexture(p)
                         /\ u.mipInt = lod
                         /\ u.latitudinal

\* C12, as stated: when the steps of two calls made on two separate
\* generator instances interleave, every draw of each call is issued with
\* the uniforms, scratch target, render target and viewport its own call
\* set.
C12_SeparateInstances ==
    /\ OwnDraws(draws, atlas, pingPong)
    /\ OwnDraws(second.draws, second.atlas, second.pingPong)

\* C12, amended: it is so when the two generators were constructed with
\* two different renderers; the uniforms and the targets belong to the
\* generator and its call, the viewport and the render target selected
\* belong to the renderer.
C12_SeparateRenderers ==
    ~second.shared =>
        /\ OwnDraws(draws, atlas, pingPong)
        /\ OwnDraws(second.draws, second.atlas, second.pingPong)
        /\ second.atlas # NoTarget => second.atlas # atlas
        /\ second.pingPong # NoTarget =>
               second.pingPong \notin {atlas, pingPong}

\* Two generators with a renderer each are both in the middle of a blur,
\* at different LODs.
C12_Witness ==
    /\ ~second.shared
    /\ pc = "blur2" /\ lodIndex = 3
    /\ second.pc = "render2" /\ second.lodIndex = 5
    /\ Len(second.draws) = 10

\* C13: for every LOD the six quads built by the constructor occupy six
\* pairwise distinct cells of the grid of 3 columns by 2 rows: no two
\* faces of a LOD have the same vertex positions.
C13_FacesDistinct ==
    \A i \in 1..Len(lodPlanes) :
        /\ \A f, g \in 1..6 : f # g => lodPlanes[i][f] # lodPlanes[i][g]
        /\ \A f \in 1..6 : /\ lodPlanes[i][f][1] \in 0..2
                            /\ lodPlanes[i][f][2] \in 0..1

\* The uniforms the shader reads in a draw: the copy branch returns after
\* sampling envMap, the blur reads them all.
UniformsRead(u) ==
    IF u.copyEquirectangular THEN {"copyEquirectangular", "envMap"}
    ELSE DOMAIN InitialUniforms

\* The value the statements of the current call give uniform name for the
\* j-th draw of the call.
UniformSet(j, name) ==
    LET k   == j \div 2
        b   == blurs[k]
        own == [copyEquirectangular |-> FALSE,
                samples             |-> SampleCount(b.sdr, lodSize[Lod(b.lodIn)]),
                weights             |-> Weights(SampleCount(b.sdr,
                                                    lodSize[Lod(b.lodIn)])),
                dTheta              |-> DTheta(b.sdr, SampleCount(b.sdr,
                                                    lodSize[Lod(b.lodIn)])),
                inputEncoding       |-> EncodingOf(atlas),
                outputEncoding      |-> EncodingOf(atlas),
                latitudinal         |-> (j % 2 = 1),
                envMap              |-> TargetTexture(IF j % 2 = 1 THEN pingPong
                                                      ELSE atlas),
                mipInt              |-> (IF j % 2 = 1 THEN b.lodOut ELSE b.lodIn)]
    IN  IF j = 1
        THEN (IF name = "envMap" THEN SourceTexture(source) ELSE TRUE)
        ELSE own[name]

\* C14: every uniform a draw reads has the value the engine wrote for it
\* earlier in the same call: the copy draw runs with copyEquirectangular
\* true and envMap the source texture; a blur draw runs with
\* copyEquirectangular false and with samples, weights (MAX_SAMPLES
\* entries), dTheta, the encodings, latitudinal, envMap and mipInt as its
\* blur invocation set them; in the first call and in every later one.
C14_UniformsWritten ==
    \A j \in 1..Len(draws) :
        LET u == draws[j].uniforms
        IN  /\ u.copyEquirectangular = (j = 1)
            /\ \A name \in UniformsRead(u) : u[name] = UniformSet(j, name)
            /\ j > 1 => Len(u.weights) = MAX_SAMPLES

\* A later call, given a texture of another encoding than an earlier one,
\* has drawn the copy and blurs.
C14_Witness ==
    /\ calls >= 1
    /\ Len(draws) >= 5
    /\ \E t \in created : t.encoding # EncodingOf(atlas)
    /\ draws[4].uniforms.inputEncoding = EncodingOf(atlas)

\* C15: the planner data is written by the constructor only: the
\* resolution, sigma, roughness and quad-geometry lists have TOTAL_LODS
\* entries each after construction, and after any sequence of calls every
\* list is still what the constructor built.
C15_PlannerReadOnly ==
    /\ Len(lodSize) = TOTAL_LODS
    /\ Len(sigma) = TOTAL_LODS
    /\ Len(roughness) = TOTAL_LODS
    /\ Len(lodPlanes) = TOTAL_LODS
    /\ lodSize = Constructor.lodSize
    /\ sigma = Constructor.sigma
    /\ roughness = Constructor.roughness
    /\ lodPlanes = Constructor.lodPlanes

\* Two calls have run to their end on the generator.
C15_Witness ==
    /\ calls >= 2 /\ pc = "idle"
    /\ Len(draws) = 2 * TOTAL_LODS - 1
    /\ roughness[Lod(TOTAL_LODS - 1)] = Scale
    /\ roughness[Lod(0)] < roughness[Lod(1)]

\* C16: with the built-in constants every blur invocation of a generation
\* computes n = ceil(3 * sqrt(sigma[i]^2 - sigma[i-1]^2) * size[i-1] * 2 /
\* pi) with 2 <= n <= MAX_SAMPLES: the divisor n - 1 of the weights and of
\* dTheta is never zero and the too-large diagnostic is never emitted.
C16_SampleCountInRange ==
    /\ console = <<>>
    /\ \A k \in 1..Len(blurs) :
           LET b == blurs[k]
               u == draws[FirstDraw(k)].uniforms
           IN  /\ b.sdr = Sqrt(MulS(sigma[Lod(k)], sigma[Lod(k)])
                                - MulS(sigma[Lod(k - 1)], sigma[Lod(k - 1)]))
               /\ b.n = CeilDiv(standardDeviations * b.sdr
                                    * lodSize[Lod(k - 1)] * 2, PI)
               /\ 2 <= b.n /\ b.n <= MAX_SAMPLES
               /\ u.samples = b.n
               /\ IsFinite(u.dTheta)
               /\ \A i \in 1..MAX_SAMPLES : IsFinite(u.weights[i])

\* A generation has made all its blurs, the last with MAX_SAMPLES samples.
C16_Witness ==
    /\ Len(blurs) = TOTAL_LODS - 1
    /\ BlurDone(TOTAL_LODS - 1)
    /\ blurs[TOTAL_LODS - 1].n = MAX_SAMPLES
    /\ blurs[1].n < blurs[LOD_MAX - LOD_MIN + 1].n

\* C17: every viewport set during a generation lies inside the atlas of
\* 3 * SIZE_MAX by 3 * SIZE_MAX texels: for the copy and for every blur
\* destination i, 0 <= x, 0 <= y, x + 3 * size_i <= 3 * SIZE_MAX and
\* y + 2 * size_i <= 3 * SIZE_MAX.
C17_ViewportsInsideAtlas ==
    /\ \A j \in 1..Len(draws) :
           LET v == draws[j].viewport
               i == draws[j].planes
           IN  /\ 0 <= v.x /\ 0 <= v.y
               /\ v.w = 3 * lodSize[Lod(i)] /\ v.h = 2 * lodSize[Lod(i)]
               /\ v.x + 3 * lodSize[Lod(i)] <= 3 * SIZE_MAX
               /\ v.y + 2 * lodSize[Lod(i)] <= 3 * SIZE_MAX
    /\ Len(draws) >= 1 =>
           /\ 0 <= viewport.x /\ viewport.x + viewport.w <= 3 * SIZE_MAX
           /\ 0 <= viewport.y /\ viewport.y + viewport.h <= 3 * SIZE_MAX
           /\ \A t \in created : t.width = 3 * SIZE_MAX /\ t.height = 3 * SIZE_MAX

\* The viewports of the copy and of every blur destination have been set.
C17_Witness ==
    /\ Len(draws) = 2 * TOTAL_LODS - 1
    /\ draws[1].viewport.h = 2 * SIZE_MAX
    /\ draws[2 * TOTAL_LODS - 1].viewport.y > SIZE_MAX
    /\ draws[2 * TOTAL_LODS - 1].viewport.x > 0

\* The render targets a draw touches: the one it renders into and, when
\* envMap is the texture of a render target, the one it samples.
Touched(d) ==
    {d.target} \cup (IF d.uniforms.envMap.kind = "target"
                      THEN {d.uniforms.envMap.id} ELSE {})

\* C18: over any sequence of calls on one generator no draw samples from
\* or renders into a target already disposed: when a call ends envMap
\* still names the scratch texture it disposed, the next call writes
\* envMap before its first draw, and within a call the dispose follows
\* the last draw.
C18_NoUseAfterDispose ==
    /\ pc \in {"applyPMREM", "blur", "blur2"} =>
           \A j \in 1..Len(draws) : Touched(draws[j]) \cap Range(disposed) = {}
    /\ pc \in {"return", "idle"} /\ Len(draws) >= 1 =>
           /\ uniforms.envMap = TargetTexture(pingPong)
           /\ disposed[Len(disposed)] = pingPong
           /\ \A j \in 1..Len(draws) :
                  Touched(draws[j]) \cap Range(disposed) \subseteq {pingPong}
           /\ Len(draws) = 2 * TOTAL_LODS - 1
    /\ pc = "applyPMREM" =>
           /\ draws[1].uniforms.envMap = SourceTexture(source)
           /\ renderTarget = atlas

\* A later call has drawn its copy after the earlier call disposed the
\* scratch target that envMap was left naming.
C18_Witness ==
    /\ calls >= 1 /\ pc = "applyPMREM"
    /\ Len(disposed) >= 1
    /\ Len(draws) = 1
    /\ draws[1].uniforms.envMap.kind = "source"

====
